---------------------------- MODULE Spec2Model ----------------------------
(***************************************************************************)
(* The Heather lexer of hhat_lang (dialects/heather/toolchain/pygments/    *)
(* lexer.py) as a state machine.                                           *)
(*                                                                         *)
(* HeatherLexer is a pygments RegexLexer: the class body is the rule table *)
(* `tokens` (one ordered rule list per lexer state) and the word tuples    *)
(* the rules are built from; the scanning loop is the one HeatherLexer     *)
(* inherits, RegexLexer.get_tokens_unprocessed.  A text is a sequence of   *)
(* one-character strings, `pos` is the 0-based cursor (text[pos+1] is the  *)
(* character at the cursor).  Every regular expression of the table is an  *)
(* operator R(t, p) giving the length of its match anchored at offset p of *)
(* t, or NoMatch.                                                          *)
(***************************************************************************)
EXTENDS Integers, Sequences, FiniteSets

VARIABLES text, pos, statestack, out, returned

vars == <<text, pos, statestack, out, returned>>

\* what a pattern gives where it does not match (re.match returns None)
NoMatch == 0 - 1

(***************************************************************************)
(* Character classes of Python's re module, restricted to ASCII.           *)
(***************************************************************************)
Lower ==
    {"a","b","c","d","e","f","g","h","i","j","k","l","m",
     "n","o","p","q","r","s","t","u","v","w","x","y","z"}

Upper ==
    {"A","B","C","D","E","F","G","H","I","J","K","L","M",
     "N","O","P","Q","R","S","T","U","V","W","X","Y","Z"}

NonZeroDigit == {"1","2","3","4","5","6","7","8","9"}

Digit == NonZeroDigit \cup {"0"}

Letter == Lower \cup Upper

AlNum == Letter \cup Digit

\* \w
WordCh == AlNum \cup {"_"}

\* [a-zA-Z0-9\-_]
IdentCh == AlNum \cup {"-", "_"}

\* \s
Space == {" ", "\t", "\n", "\r", "\f"}

\* [ \t\r\n,;]
Separator == {" ", "\t", "\r", "\n", ",", ";"}

(***************************************************************************)
(* Matching primitives.                                                    *)
(***************************************************************************)
\* t[p+1 ..] starts with the character sequence w
StartsWith(t, p, w) ==
    /\ p + Len(w) <= Len(t)
    /\ \A k \in 1..Len(w) : t[p + k] = w[k]

\* the character at offset p of t is in class S
InClass(t, p, S) == p < Len(t) /\ t[p + 1] \in S

\* the character at offset p of t exists and is not in S: [^...]
NotInClass(t, p, S) == p < Len(t) /\ t[p + 1] \notin S

\* length of the longest run of characters of S from offset p: S*
RECURSIVE Run(_, _, _)
Run(t, p, S) ==
    IF InClass(t, p, S) THEN 1 + Run(t, p + 1, S) ELSE 0

\* length of the longest run of characters not in S from offset p: [^...]*
RECURSIVE RunNot(_, _, _)
RunNot(t, p, S) ==
    IF NotInClass(t, p, S) THEN 1 + RunNot(t, p + 1, S) ELSE 0

\* S+
Plus(t, p, S) ==
    LET n == Run(t, p, S) IN IF n >= 1 THEN n ELSE NoMatch

\* the literal w
Lit(t, p, w) == IF StartsWith(t, p, w) THEN Len(w) ELSE NoMatch

\* \b at offset p: exactly one of the characters before and after is a \w
Boundary(t, p) ==
    (p >= 1 /\ t[p] \in WordCh) # InClass(t, p, WordCh)

Max(S) == CHOOSE x \in S : \A y \in S : y <= x

Min(S) == CHOOSE x \in S : \A y \in S : x <= y

\* pygments.lexer.words(ws, prefix, suffix): one of the words ws, with \b
\* before it when prefixB and \b after it when suffixB
Words(t, p, ws, prefixB, suffixB) ==
    LET ok == {Len(w) : w \in {v \in ws :
                   /\ StartsWith(t, p, v)
                   /\ suffixB => Boundary(t, p + Len(v))}}
    IN  IF (prefixB => Boundary(t, p)) /\ ok # {} THEN Max(ok) ELSE NoMatch

(***************************************************************************)
(* The word tuples of HeatherLexer, each word a sequence of characters.    *)
(***************************************************************************)
keywords_decl ==
    {<<"c","o","n","s","t">>,
     <<"f","n">>,
     <<"m","a","i","n">>,
     <<"m","e","t","a","-","f","n">>,
     <<"m","e","t","a","f","n">>,
     <<"m","o","d","i","f","i","e","r">>,
     <<"m","e","t","a","m","o","d">>,
     <<"t","y","p","e">>,
     <<"u","s","e">>}

keywords_type ==
    {<<"b","d","n","_","t">>,
     <<"f","n","_","t">>,
     <<"i","r","_","t">>,
     <<"o","p","b","d","n","_","t">>,
     <<"o","p","n","_","t">>,
     <<"o","p","t","n","_","t">>}

builtin_types_classical ==
    {<<"b","o","o","l">>,
     <<"f","3","2">>,
     <<"f","6","4">>,
     <<"f","l","o","a","t">>,
     <<"h","a","s","h","m","a","p">>,
     <<"i","3","2">>,
     <<"i","6","4">>,
     <<"i","m","a","g">>,
     <<"i","n","t">>,
     <<"s","a","m","p","l","e","_","t">>,
     <<"s","t","r">>,
     <<"u","3","2">>,
     <<"u","6","4">>}

builtin_types_quantum ==
    {<<"@","b","e","l","l","_","t">>,
     <<"@","b","o","o","l">>,
     <<"@","f","a","l","s","e">>,
     <<"@","i","n","t">>,
     <<"@","t","r","u","e">>,
     <<"@","u","2">>,
     <<"@","u","3">>,
     <<"@","u","4">>}

bool_literals ==
    {<<"f","a","l","s","e">>,
     <<"t","r","u","e">>}

quantum_bool_literals ==
    {<<"@","f","a","l","s","e">>,
     <<"@","t","r","u","e">>}

keywords_reserved ==
    {<<"s","e","l","f">>}

(***************************************************************************)
(* The patterns of tokens["root"], in the order of the table.              *)
(***************************************************************************)
\* mutant of RootWhitespace: [ \t\r\n,;]* , which matches the empty string
RootWhitespaceStar(t, p) == Run(t, p, Separator)

\* [ \t\r\n,;]+
RootWhitespace(t, p) == Plus(t, p, Separator)

\* //[^\n]*\n
RootCommentSingle(t, p) ==
    IF StartsWith(t, p, <<"/", "/">>)
    THEN LET n == RunNot(t, p + 2, {"\n"})
         IN  IF InClass(t, p + 2 + n, {"\n"}) THEN 2 + n + 1 ELSE NoMatch
    ELSE NoMatch

\* /\*
RootCommentOpen(t, p) == Lit(t, p, <<"/", "*">>)

\* mutant of RootKeywordDecl: words(keywords_decl), the suffix left out
RootKeywordDeclNoSuffix(t, p) == Words(t, p, keywords_decl, FALSE, FALSE)

\* words(keywords_decl, suffix=r"\b")
RootKeywordDecl(t, p) == Words(t, p, keywords_decl, FALSE, TRUE)

\* words(keywords_type, suffix=r"\b")
RootKeywordType(t, p) == Words(t, p, keywords_type, FALSE, TRUE)

\* words(keywords_reserved, suffix=r"\b")
RootKeywordReserved(t, p) == Words(t, p, keywords_reserved, FALSE, TRUE)

\* words(builtin_types_classical, suffix=r"\b")
RootBuiltinClassical(t, p) == Words(t, p, builtin_types_classical, FALSE, TRUE)

\* words(builtin_types_quantum, suffix=r"\b")
RootBuiltinQuantum(t, p) == Words(t, p, builtin_types_quantum, FALSE, TRUE)

\* words(bool_literals, prefix=r"\b", suffix=r"\b")
RootBool(t, p) == Words(t, p, bool_literals, TRUE, TRUE)

\* words(quantum_bool_literals, prefix=r"\b", suffix=r"\b")
RootBoolQuantum(t, p) == Words(t, p, quantum_bool_literals, TRUE, TRUE)

\* ::
RootReturn(t, p) == Lit(t, p, <<":", ":">>)

\* \*(?=\s)
RootCast(t, p) ==
    IF InClass(t, p, {"*"}) /\ InClass(t, p + 1, Space) THEN 1 ELSE NoMatch

\* &
RootReference(t, p) == Lit(t, p, <<"&">>)

\* \.\.\.(?=\s|\)|\]|\})
RootVariadic(t, p) ==
    IF StartsWith(t, p, <<".", ".", ".">>)
       /\ InClass(t, p + 3, Space \cup {")", "]", "}"})
    THEN 3 ELSE NoMatch

\* \.\.(?=\s|\)|\]|\}|[a-zA-Z0-9])
RootRange(t, p) ==
    IF StartsWith(t, p, <<".", ".">>)
       /\ InClass(t, p + 2, Space \cup {")", "]", "}"} \cup AlNum)
    THEN 2 ELSE NoMatch

\* :
RootColon(t, p) == Lit(t, p, <<":">>)

\* =
RootEquals(t, p) == Lit(t, p, <<"=">>)

\* \.
RootDot(t, p) == Lit(t, p, <<".">>)

\* [(){}\[\]]
RootPunctuation(t, p) ==
    IF InClass(t, p, {"(", ")", "{", "}", "[", "]"}) THEN 1 ELSE NoMatch

\* #\[
RootTraitOpen(t, p) == Lit(t, p, <<"#", "[">>)

\* @?[A-Z][a-zA-Z0-9\-_]* after the optional sigil: shared by the decorator
\* patterns of "root" and "trait-list"
TraitName(t, p) ==
    LET q == IF InClass(t, p, {"@"}) THEN p + 1 ELSE p
    IN  IF InClass(t, q, Upper)
        THEN (q - p) + 1 + Run(t, q + 1, IdentCh)
        ELSE NoMatch

\* #@?[A-Z][a-zA-Z0-9\-_]*
RootDecorator(t, p) ==
    IF InClass(t, p, {"#"}) /\ TraitName(t, p + 1) # NoMatch
    THEN 1 + TraitName(t, p + 1)
    ELSE NoMatch

\* <
RootModifierOpen(t, p) == Lit(t, p, <<"<">>)

\* mutant of IntCore: \d+\b , which takes leading zeros
IntCoreAnyDigits(t, p) ==
    LET n == Run(t, p, Digit)
    IN  IF n >= 1 /\ Boundary(t, p + n) THEN n ELSE NoMatch

\* (?:[1-9]\d*|0)\b : the digit run is greedy and \b cannot hold between two
\* digits, so the match is the whole run or nothing
IntCore(t, p) ==
    LET n == IF InClass(t, p, NonZeroDigit) THEN 1 + Run(t, p + 1, Digit)
             ELSE IF InClass(t, p, {"0"}) THEN 1
             ELSE NoMatch
    IN  IF n # NoMatch /\ Boundary(t, p + n) THEN n ELSE NoMatch

\* -?(?:[1-9]\d*|0)\b
SignedInt(t, p) ==
    LET q == IF InClass(t, p, {"-"}) THEN p + 1 ELSE p
    IN  IF IntCore(t, q) # NoMatch THEN (q - p) + IntCore(t, q) ELSE NoMatch

\* @-?(?:[1-9]\d*|0)\b
RootNumberQuantum(t, p) ==
    IF InClass(t, p, {"@"}) /\ SignedInt(t, p + 1) # NoMatch
    THEN 1 + SignedInt(t, p + 1)
    ELSE NoMatch

\* -?\d+\.\d+
RootNumberFloat(t, p) ==
    LET q == IF InClass(t, p, {"-"}) THEN p + 1 ELSE p
        a == Run(t, q, Digit)
        b == Run(t, q + a + 1, Digit)
    IN  IF a >= 1 /\ InClass(t, q + a, {"."}) /\ b >= 1
        THEN (q - p) + a + 1 + b
        ELSE NoMatch

\* -?(?:[1-9]\d*|0)\b
RootNumberInteger(t, p) == SignedInt(t, p)

\* "[^"]*"
RootString(t, p) ==
    IF InClass(t, p, {"\""})
    THEN LET n == RunNot(t, p + 1, {"\""})
         IN  IF InClass(t, p + 1 + n, {"\""}) THEN n + 2 ELSE NoMatch
    ELSE NoMatch

\* mutant of RootIdentQuantum: @[A-Z][a-zA-Z0-9\-_]* , the class of the type
\* identifier rule below it
RootIdentQuantumUpper(t, p) ==
    IF InClass(t, p, {"@"}) /\ InClass(t, p + 1, Upper)
    THEN 2 + Run(t, p + 2, IdentCh)
    ELSE NoMatch

\* @[a-zA-Z][a-zA-Z0-9\-_]*
RootIdentQuantum(t, p) ==
    IF InClass(t, p, {"@"}) /\ InClass(t, p + 1, Letter)
    THEN 2 + Run(t, p + 2, IdentCh)
    ELSE NoMatch

\* mutant of RootIdentType: [a-zA-Z][a-zA-Z0-9\-_]* , the class of the
\* quantum identifier rule above it
RootIdentTypeAnyCase(t, p) ==
    IF InClass(t, p, Letter) THEN 1 + Run(t, p + 1, IdentCh) ELSE NoMatch

\* [A-Z][a-zA-Z0-9\-_]*
RootIdentType(t, p) ==
    IF InClass(t, p, Upper) THEN 1 + Run(t, p + 1, IdentCh) ELSE NoMatch

\* [a-z][a-zA-Z0-9\-_]*
RootIdent(t, p) ==
    IF InClass(t, p, Lower) THEN 1 + Run(t, p + 1, IdentCh) ELSE NoMatch

(***************************************************************************)
(* The patterns of tokens["comment"], tokens["trait-list"] and             *)
(* tokens["modifier"].                                                     *)
(***************************************************************************)
\* mutant of CommentText: [^*/\n] , which leaves the newline unmatched
CommentTextNoNewline(t, p) ==
    IF NotInClass(t, p, {"*", "/", "\n"}) THEN 1 ELSE NoMatch

\* [^*/]
CommentText(t, p) == IF NotInClass(t, p, {"*", "/"}) THEN 1 ELSE NoMatch

\* /\*
CommentOpen(t, p) == Lit(t, p, <<"/", "*">>)

\* \*/
CommentClose(t, p) == Lit(t, p, <<"*", "/">>)

\* [*/]
CommentStarSlash(t, p) == IF InClass(t, p, {"*", "/"}) THEN 1 ELSE NoMatch

\* mutant of TraitWhitespace: [ \t]+ , which leaves the newline unmatched
TraitWhitespaceNoNewline(t, p) == Plus(t, p, {" ", "\t"})

\* \s+
TraitWhitespace(t, p) == Plus(t, p, Space)

\* @?[A-Z][a-zA-Z0-9\-_]*
TraitDecorator(t, p) == TraitName(t, p)

\* \]
TraitClose(t, p) == Lit(t, p, <<"]">>)

\* mutant of ModWhitespace: [ \t]+ , which leaves the newline unmatched
ModWhitespaceNoNewline(t, p) == Plus(t, p, {" ", "\t"})

\* \s+
ModWhitespace(t, p) == Plus(t, p, Space)

\* &
ModReference(t, p) == Lit(t, p, <<"&">>)

\* \*
ModCast(t, p) == Lit(t, p, <<"*">>)

\* \.\.\.
ModVariadic(t, p) == Lit(t, p, <<".", ".", ".">>)

\* :
ModColon(t, p) == Lit(t, p, <<":">>)

\* =
ModEquals(t, p) == Lit(t, p, <<"=">>)

\* @?[a-zA-Z][a-zA-Z0-9\-_]*
ModAttribute(t, p) ==
    LET q == IF InClass(t, p, {"@"}) THEN p + 1 ELSE p
    IN  IF InClass(t, q, Letter)
        THEN (q - p) + 1 + Run(t, q + 1, IdentCh)
        ELSE NoMatch

\* -?(?:[1-9]\d*|0)\b
ModNumberInteger(t, p) == SignedInt(t, p)

\* >
ModClose(t, p) == Lit(t, p, <<">">>)

(***************************************************************************)
(* The rule table.  A rule is [m, tok, new]: the length its pattern        *)
(* matches at offset p of t (or NoMatch), the token type it emits and its  *)
(* state transition: a state to push, "#push", "#pop", or "None" for a     *)
(* two-element rule.                                                       *)
(***************************************************************************)
Rule(m, tok, new) == [m |-> m, tok |-> tok, new |-> new]

\* mutant of RootRules: the integer rule is tried before the float rule
RootRulesIntegerFirst(t, p) ==
    << Rule(RootWhitespace(t, p),       "Whitespace",            "None"),
       Rule(RootCommentSingle(t, p),    "Comment.Single",        "None"),
       Rule(RootCommentOpen(t, p),      "Comment.Multiline",     "comment"),
       Rule(RootKeywordDecl(t, p),      "Keyword.Declaration",   "None"),
       Rule(RootKeywordType(t, p),      "Keyword.Type",          "None"),
       Rule(RootKeywordReserved(t, p),  "Keyword.Reserved",      "None"),
       Rule(RootBuiltinClassical(t, p), "Name.Builtin",          "None"),
       Rule(RootBuiltinQuantum(t, p),   "Name.Builtin.Quantum",  "None"),
       Rule(RootBool(t, p),             "Name.Constant",         "None"),
       Rule(RootBoolQuantum(t, p),      "Name.Constant.Quantum", "None"),
       Rule(RootReturn(t, p),           "Operator.Word",         "None"),
       Rule(RootCast(t, p),             "Operator.Word",         "None"),
       Rule(RootReference(t, p),        "Operator.Word",         "None"),
       Rule(RootVariadic(t, p),         "Operator",              "None"),
       Rule(RootRange(t, p),            "Operator",              "None"),
       Rule(RootColon(t, p),            "Operator",              "None"),
       Rule(RootEquals(t, p),           "Operator",              "None"),
       Rule(RootDot(t, p),              "Operator",              "None"),
       Rule(RootPunctuation(t, p),      "Punctuation",           "None"),
       Rule(RootTraitOpen(t, p),        "Punctuation",           "trait-list"),
       Rule(RootDecorator(t, p),        "Name.Decorator",        "None"),
       Rule(RootModifierOpen(t, p),     "Punctuation",           "modifier"),
       Rule(RootNumberQuantum(t, p),    "Number.Quantum",        "None"),
       Rule(RootNumberInteger(t, p),    "Number.Integer",        "None"),
       Rule(RootNumberFloat(t, p),      "Number.Float",          "None"),
       Rule(RootString(t, p),           "String",                "None"),
       Rule(RootIdentQuantum(t, p),     "Name.Variable.Quantum", "None"),
       Rule(RootIdentType(t, p),        "Name.Class",            "None"),
       Rule(RootIdent(t, p),            "Name",                  "None") >>

RootRules(t, p) ==
    << Rule(RootWhitespace(t, p),       "Whitespace",            "None"),
       Rule(RootCommentSingle(t, p),    "Comment.Single",        "None"),
       Rule(RootCommentOpen(t, p),      "Comment.Multiline",     "comment"),
       Rule(RootKeywordDecl(t, p),      "Keyword.Declaration",   "None"),
       Rule(RootKeywordType(t, p),      "Keyword.Type",          "None"),
       Rule(RootKeywordReserved(t, p),  "Keyword.Reserved",      "None"),
       Rule(RootBuiltinClassical(t, p), "Name.Builtin",          "None"),
       Rule(RootBuiltinQuantum(t, p),   "Name.Builtin.Quantum",  "None"),
       Rule(RootBool(t, p),             "Name.Constant",         "None"),
       Rule(RootBoolQuantum(t, p),      "Name.Constant.Quantum", "None"),
       Rule(RootReturn(t, p),           "Operator.Word",         "None"),
       Rule(RootCast(t, p),             "Operator.Word",         "None"),
       Rule(RootReference(t, p),        "Operator.Word",         "None"),
       Rule(RootVariadic(t, p),         "Operator",              "None"),
       Rule(RootRange(t, p),            "Operator",              "None"),
       Rule(RootColon(t, p),            "Operator",              "None"),
       Rule(RootEquals(t, p),           "Operator",              "None"),
       Rule(RootDot(t, p),              "Operator",              "None"),
       Rule(RootPunctuation(t, p),      "Punctuation",           "None"),
       Rule(RootTraitOpen(t, p),        "Punctuation",           "trait-list"),
       Rule(RootDecorator(t, p),        "Name.Decorator",        "None"),
       Rule(RootModifierOpen(t, p),     "Punctuation",           "modifier"),
       Rule(RootNumberQuantum(t, p),    "Number.Quantum",        "None"),
       Rule(RootNumberFloat(t, p),      "Number.Float",          "None"),
       Rule(RootNumberInteger(t, p),    "Number.Integer",        "None"),
       Rule(RootString(t, p),           "String",                "None"),
       Rule(RootIdentQuantum(t, p),     "Name.Variable.Quantum", "None"),
       Rule(RootIdentType(t, p),        "Name.Class",            "None"),
       Rule(RootIdent(t, p),            "Name",                  "None") >>

\* mutant of CommentRules: the nested opener does not push
CommentRulesNoPush(t, p) ==
    << Rule(CommentText(t, p),      "Comment.Multiline", "None"),
       Rule(CommentOpen(t, p),      "Comment.Multiline", "None"),
       Rule(CommentClose(t, p),     "Comment.Multiline", "#pop"),
       Rule(CommentStarSlash(t, p), "Comment.Multiline", "None") >>

CommentRules(t, p) ==
    << Rule(CommentText(t, p),      "Comment.Multiline", "None"),
       Rule(CommentOpen(t, p),      "Comment.Multiline", "#push"),
       Rule(CommentClose(t, p),     "Comment.Multiline", "#pop"),
       Rule(CommentStarSlash(t, p), "Comment.Multiline", "None") >>

\* mutant of TraitListRules: the trait name pops, as if a list held one name
TraitListRulesPopAfterName(t, p) ==
    << Rule(TraitWhitespace(t, p), "Whitespace",     "None"),
       Rule(TraitDecorator(t, p),  "Name.Decorator", "#pop"),
       Rule(TraitClose(t, p),      "Punctuation",    "#pop") >>

\* mutant of TraitListRules: the closing bracket does not pop
TraitListRulesNoPop(t, p) ==
    << Rule(TraitWhitespace(t, p), "Whitespace",     "None"),
       Rule(TraitDecorator(t, p),  "Name.Decorator", "None"),
       Rule(TraitClose(t, p),      "Punctuation",    "None") >>

TraitListRules(t, p) ==
    << Rule(TraitWhitespace(t, p), "Whitespace",     "None"),
       Rule(TraitDecorator(t, p),  "Name.Decorator", "None"),
       Rule(TraitClose(t, p),      "Punctuation",    "#pop") >>

\* mutant of ModifierRules: an opening angle bracket nests ("#push")
ModifierRulesNested(t, p) ==
    << Rule(ModWhitespace(t, p),    "Whitespace",     "None"),
       Rule(ModReference(t, p),     "Operator.Word",  "None"),
       Rule(ModCast(t, p),          "Operator.Word",  "None"),
       Rule(ModVariadic(t, p),      "Operator",       "None"),
       Rule(ModColon(t, p),         "Operator",       "None"),
       Rule(ModEquals(t, p),        "Operator",       "None"),
       Rule(ModAttribute(t, p),     "Name.Attribute", "None"),
       Rule(ModNumberInteger(t, p), "Number.Integer", "None"),
       Rule(ModClose(t, p),         "Punctuation",    "#pop"),
       Rule(Lit(t, p, <<"<">>),     "Punctuation",    "#push") >>

\* mutant of ModifierRules: the closing angle bracket does not pop
ModifierRulesNoPop(t, p) ==
    << Rule(ModWhitespace(t, p),    "Whitespace",     "None"),
       Rule(ModReference(t, p),     "Operator.Word",  "None"),
       Rule(ModCast(t, p),          "Operator.Word",  "None"),
       Rule(ModVariadic(t, p),      "Operator",       "None"),
       Rule(ModColon(t, p),         "Operator",       "None"),
       Rule(ModEquals(t, p),        "Operator",       "None"),
       Rule(ModAttribute(t, p),     "Name.Attribute", "None"),
       Rule(ModNumberInteger(t, p), "Number.Integer", "None"),
       Rule(ModClose(t, p),         "Punctuation",    "None") >>

ModifierRules(t, p) ==
    << Rule(ModWhitespace(t, p),    "Whitespace",     "None"),
       Rule(ModReference(t, p),     "Operator.Word",  "None"),
       Rule(ModCast(t, p),          "Operator.Word",  "None"),
       Rule(ModVariadic(t, p),      "Operator",       "None"),
       Rule(ModColon(t, p),         "Operator",       "None"),
       Rule(ModEquals(t, p),        "Operator",       "None"),
       Rule(ModAttribute(t, p),     "Name.Attribute", "None"),
       Rule(ModNumberInteger(t, p), "Number.Integer", "None"),
       Rule(ModClose(t, p),         "Punctuation",    "#pop") >>

\* tokens[state], its patterns tried at offset p of t
tokens(state, t, p) ==
    CASE state = "root"       -> RootRules(t, p)
      [] state = "comment"    -> CommentRules(t, p)
      [] state = "trait-list" -> TraitListRules(t, p)
      [] state = "modifier"   -> ModifierRules(t, p)

(***************************************************************************)
(* The scanning loop HeatherLexer inherits from RegexLexer                 *)
(* (get_tokens_unprocessed): the rules of the state on top of the stack    *)
(* are tried in order at the cursor and the first that matches wins; when  *)
(* none matches, one character is emitted as Error (a newline resets the   *)
(* stack to ["root"] and is emitted as Whitespace); the loop ends when the *)
(* cursor is at the end of the text and nothing matches there.             *)
(***************************************************************************)
Top(stack) == stack[Len(stack)]

\* the rules of the current state that match at the cursor
Matching(rules) == {i \in DOMAIN rules : rules[i].m # NoMatch}

\* the first rule that matches (the for loop breaks at it)
FirstMatch(rules) == rules[Min(Matching(rules))]

\* mutant of NewStack: a named state replaces the stack instead of being
\* pushed on it
NewStackGoto(stack, new) ==
    CASE new = "None"  -> stack
      [] new = "#pop"  -> IF Len(stack) > 1
                          THEN SubSeq(stack, 1, Len(stack) - 1)
                          ELSE stack
      [] new = "#push" -> Append(stack, stack[Len(stack)])
      [] OTHER         -> <<new>>

\* the state transition of a matched rule
NewStack(stack, new) ==
    CASE new = "None"  -> stack
      [] new = "#pop"  -> IF Len(stack) > 1
                          THEN SubSeq(stack, 1, Len(stack) - 1)
                          ELSE stack
      [] new = "#push" -> Append(stack, Top(stack))
      [] OTHER         -> Append(stack, new)

\* a token as get_tokens_unprocessed yields it: (index, tokentype, value)
Token(index, tokentype, value) ==
    [index |-> index, type |-> tokentype, value |-> value]

\* mutant of MatchToken: the token is yielded with m.end() as its index
MatchTokenAtEnd(t, p, r) ==
    [index |-> p + r.m, type |-> r.tok, value |-> SubSeq(t, p + 1, p + r.m)]

\* the token a matched rule yields: its type with m.group()
MatchToken(t, p, r) == Token(p, r.tok, SubSeq(t, p + 1, p + r.m))

\* the cursor after a match: m.end()
MatchEnd(p, r) == p + r.m

\* the token of the fallback branch for the character c at the cursor
ErrorToken(p, c) == Token(p, IF c = "\n" THEN "Whitespace" ELSE "Error", <<c>>)

\* the stack after the fallback branch
ErrorStack(stack, c) == IF c = "\n" THEN <<"root">> ELSE stack

(***************************************************************************)
(* The inputs.  A text is a sample below or up to MaxFrags fragments of    *)
(* Frags one after the other.                                              *)
(***************************************************************************)
MaxFrags == 3

Frags ==
    {<<"f","n">>,
     <<"x">>,
     <<"-">>,
     <<"@">>,
     <<"0">>,
     <<"/","*">>,
     <<"*","/">>,
     <<" ">>,
     <<"\n">>,
     <<"$">>,
     <<"<">>,
     <<">">>,
     <<"#","[">>,
     <<"]">>}

\* fn
S_fn == <<"f","n">>

\* function
S_function == <<"f","u","n","c","t","i","o","n">>

\* fn-x
S_fn_x == <<"f","n","-","x">>

\* main-loop
S_main_loop == <<"m","a","i","n","-","l","o","o","p">>

\* int-x
S_int_x == <<"i","n","t","-","x">>

\* @true
S_qtrue == <<"@","t","r","u","e">>

\* @false
S_qfalse == <<"@","f","a","l","s","e">>

\* true
S_true == <<"t","r","u","e">>

\* int
S_int == <<"i","n","t">>

\* @int
S_qint == <<"@","i","n","t">>

\* x
S_x == <<"x">>

\* @x
S_qx == <<"@","x">>

\* /* a /* b */ c */
S_nested == <<"/","*"," ","a"," ","/","*"," ","b"," ","*","/"," ","c"," ","*","/">>

\* 00
S_00 == <<"0","0">>

\* 0
S_0 == <<"0">>

\* $
S_dollar == <<"$">>

\* $fn
S_dollar_fn == <<"$","f","n">>

\* 3.14
S_float == <<"3",".","1","4">>

\* @-5
S_qneg5 == <<"@","-","5">>

\* #[Trait]
S_trait == <<"#","[","T","r","a","i","t","]">>

\* <a:1>
S_modifier == <<"<","a",":","1",">">>

\* -01
S_neg01 == <<"-","0","1">>

\* 007
S_007 == <<"0","0","7">>

\* 10
S_10 == <<"1","0">>

\* -0
S_neg0 == <<"-","0">>

\* 1true
S_1true == <<"1","t","r","u","e">>

\* meta-fn
S_meta_fn == <<"m","e","t","a","-","f","n">>

\* fn_t
S_fn_t == <<"f","n","_","t">>

\* // c\nfn
S_line_comment == <<"/","/"," ","c","\n","f","n">>

\* // c
S_line_comment_eof == <<"/","/"," ","c">>

\* @Foo
S_qFoo == <<"@","F","o","o">>

\* <fn
S_open_mod_fn == <<"<","f","n">>

\* "a b"
S_string == <<"\"","a"," ","b","\"">>

\* a::b *c & ...
S_ops == <<"a",":",":","b"," ","*","c"," ","&"," ",".",".",".">>

\* -0.5
S_neg_float == <<"-","0",".","5">>

\* 1.2.3
S_float_dot == <<"1",".","2",".","3">>

\* @0
S_q0 == <<"@","0">>

\* @10x
S_q10x == <<"@","1","0","x">>

\* @00
S_q00 == <<"@","0","0">>

\* <a>#[T]/*/*
S_shapes == <<"<","a",">","#","[","T","]","/","*","/","*">>

\* /* a\n@"* / $
S_unterminated == <<"/","*"," ","a","\n","@","\"","*"," ","/"," ","$">>

\* <a\n$ fn
S_open_mod == <<"<","a","\n","$"," ","f","n">>

\* #[A\n$ fn
S_open_trait == <<"#","[","A","\n","$"," ","f","n">>

Samples ==
    {S_fn, S_function, S_fn_x, S_main_loop, S_int_x,
     S_qtrue, S_qfalse, S_true, S_int, S_qint,
     S_x, S_qx, S_nested, S_00, S_0,
     S_dollar, S_dollar_fn, S_float, S_qneg5, S_trait,
     S_modifier, S_neg01, S_007, S_10, S_neg0,
     S_1true, S_meta_fn, S_fn_t, S_line_comment, S_line_comment_eof,
     S_qFoo, S_open_mod_fn, S_string, S_ops,
     S_neg_float, S_float_dot, S_q0, S_q10x, S_q00,
     S_shapes,
     S_unterminated,
     S_open_mod, S_open_trait}

RECURSIVE Flatten(_)
Flatten(fs) == IF fs = <<>> THEN <<>> ELSE Head(fs) \o Flatten(Tail(fs))

Inputs ==
    Samples \cup
    {Flatten(fs) : fs \in UNION {[1..n -> Frags] : n \in 0..MaxFrags}}

(***************************************************************************)
(* The state machine: one call of get_tokens_unprocessed(text).  The       *)
(* history variable `returned` lists the calls made before this one on the *)
(* same lexer, each with its text and the tokens it yielded.               *)
(***************************************************************************)
\* pos = 0, statestack = ['root'], nothing yielded yet
Init ==
    /\ text \in Inputs
    /\ pos = 0
    /\ statestack = <<"root">>
    /\ out = <<>>
    /\ returned = <<>>

\* the rules of the current state, tried at the cursor
Rules == tokens(Top(statestack), text, pos)

\* for rexmatch, action, new_state in statetokens: m = rexmatch(text, pos);
\* if m: yield, pos = m.end(), state transition, break
MatchEnabled == Matching(Rules) # {}

Match ==
    /\ MatchEnabled
    /\ LET r == FirstMatch(Rules)
       IN  /\ out' = Append(out, MatchToken(text, pos, r))
           /\ pos' = MatchEnd(pos, r)
           /\ statestack' = NewStack(statestack, r.new)
    /\ UNCHANGED <<text, returned>>

\* the for loop's else branch: no rule matched; text[pos] raises IndexError
\* at the end of the text, which ends the loop
FallbackEnabled == ~MatchEnabled /\ pos < Len(text)

Fallback ==
    /\ FallbackEnabled
    /\ out' = Append(out, ErrorToken(pos, text[pos + 1]))
    /\ statestack' = ErrorStack(statestack, text[pos + 1])
    /\ pos' = pos + 1
    /\ UNCHANGED <<text, returned>>

Next == Match \/ Fallback

Spec == Init /\ [][Next]_vars

\* the loop has ended (break): neither branch can run
Finished == ~MatchEnabled /\ ~FallbackEnabled

(***************************************************************************)
(* Several calls on one lexer, one after the other.  pos and statestack    *)
(* are locals of get_tokens_unprocessed and HeatherLexer adds no instance  *)
(* attribute, so a call takes nothing from the call before it.             *)
(***************************************************************************)
MaxCalls == 3

\* the texts of the calls: the fragments, among them the openers that leave
\* a call inside a nested state, and two longer unterminated texts
CallInputs == Frags \cup {S_open_mod_fn, S_unterminated}

\* mutant of StartStack: the stack the call before ended with
StartStackKept(last) == last

\* statestack = list(stack), stack being the default argument ('root',):
\* a new list, whatever stack `last` the call before ended with
StartStack(last) == <<"root">>

InitCalls ==
    /\ text \in CallInputs
    /\ pos = 0
    /\ statestack = <<"root">>
    /\ out = <<>>
    /\ returned = <<>>

\* the call has run to its end and the caller calls again: pos = 0,
\* statestack = list(stack), a new generator that has yielded nothing
NewCall ==
    /\ Finished
    /\ Len(returned) + 1 < MaxCalls
    /\ returned' = Append(returned, [text |-> text, out |-> out])
    /\ text' \in CallInputs
    /\ pos' = 0
    /\ statestack' = StartStack(statestack)
    /\ out' = <<>>

NextCalls == Match \/ Fallback \/ NewCall

SpecCalls == InitCalls /\ [][NextCalls]_vars

(***************************************************************************)
(* Helpers of the properties.                                              *)
(***************************************************************************)
\* the token values of a token sequence, one after the other
RECURSIVE Values(_)
Values(toks) ==
    IF toks = <<>> THEN <<>> ELSE Head(toks).value \o Values(Tail(toks))

\* the offset just after a token
End(tok) == tok.index + Len(tok.value)

\* the tokens of type ty with value v among toks
Count(toks, ty, v) ==
    Cardinality({i \in DOMAIN toks : toks[i].type = ty /\ toks[i].value = v})

(***************************************************************************)
(* C1: the tokens are contiguous and non-overlapping: the first starts at  *)
(* offset 0, each ends where the next starts, the last ends at the cursor, *)
(* their values one after the other are the text consumed so far, and when *)
(* the scan is over the cursor is at len(text), so that they are the whole *)
(* text.                                                                   *)
(***************************************************************************)
C1_Contiguous ==
    /\ pos <= Len(text)
    /\ out # <<>> => out[1].index = 0 /\ End(out[Len(out)]) = pos
    /\ \A i \in 1..(Len(out) - 1) : End(out[i]) = out[i + 1].index
    /\ Values(out) = SubSeq(text, 1, pos)
    /\ Finished => pos = Len(text) /\ Values(out) = text

\* a finished scan that emitted whitespace, a block-comment delimiter and a
\* fallback character
C1_Witness ==
    /\ Finished
    /\ \E i, j, k \in DOMAIN out :
          /\ out[i].type = "Whitespace"
          /\ out[j].type = "Comment.Multiline" /\ out[j].value = <<"/", "*">>
          /\ out[k].type = "Error"

(***************************************************************************)
(* C2: every step of the loop moves the cursor forward by at least one     *)
(* character and yields one token, so the number of steps taken never      *)
(* exceeds the cursor, and the cursor never exceeds len(text).             *)
(***************************************************************************)
C2_Progress ==
    /\ [][pos' >= pos + 1 /\ Len(out') = Len(out) + 1]_vars
    /\ [](Len(out) <= pos /\ pos <= Len(text))

\* a finished scan of N >= 3 characters that took exactly N steps, the last
\* of them inside a nested state
C2_Witness ==
    /\ Finished
    /\ Len(text) >= 3
    /\ Len(out) = Len(text)
    /\ Top(statestack) # "root"

(***************************************************************************)
(* C3: the scan never fails: it ends only with the cursor at len(text),    *)
(* and a step at which no rule of the current state matches yields         *)
(* exactly one Error token holding the character at the cursor and moves   *)
(* the cursor by one; "$" in "root" is such a character.                   *)
(***************************************************************************)
C3_FallbackStep ==
    /\ [][Matching(Rules) = {} =>
            /\ out' = Append(out, Token(pos, "Error", <<text[pos + 1]>>))
            /\ pos' = pos + 1]_vars
    /\ [](Finished => pos = Len(text))
    /\ [](Top(statestack) = "root" /\ InClass(text, pos, {"$"})
            => Matching(Rules) = {})

\* "$" was emitted as one Error token and the scan went on to match a rule
C3_Witness ==
    \E i \in 1..(Len(out) - 1) :
        /\ out[i] = Token(out[i].index, "Error", <<"$">>)
        /\ out[i + 1].type # "Error"

(***************************************************************************)
(* C4: the stack is never empty and its bottom is "root"; a closer met     *)
(* while the stack is ["root"] leaves it ["root"].                         *)
(***************************************************************************)
CloserAtCursor ==
    \/ StartsWith(text, pos, <<"*", "/">>)
    \/ InClass(text, pos, {"]", ">"})

C4_RootNeverPopped ==
    /\ [](statestack # <<>> /\ statestack[1] = "root")
    /\ [][statestack = <<"root">> /\ CloserAtCursor
            => statestack' = <<"root">>]_vars

\* a closer was consumed at offset 0, with nothing open
C4_Witness ==
    /\ out # <<>>
    /\ out[1].value \in {<<"]">>, <<">">>, <<"*">>}
    /\ Len(text) >= 2 /\ pos >= 2
    /\ statestack = <<"root">>

(***************************************************************************)
(* C5: in "root", when the text at the cursor is a declaration keyword     *)
(* followed by a character that is not a word character, or by the end of  *)
(* the text, the step yields one Keyword.Declaration token holding the     *)
(* keyword; no Keyword.Declaration token is followed by a word character,  *)
(* and "function" is one Name token.                                       *)
(***************************************************************************)
KeywordAtCursor(w) ==
    /\ StartsWith(text, pos, w)
    /\ ~InClass(text, pos + Len(w), WordCh)

C5_KeywordPrecedence ==
    /\ [][\A w \in keywords_decl :
            Top(statestack) = "root" /\ KeywordAtCursor(w)
            => out' = Append(out, Token(pos, "Keyword.Declaration", w))]_vars
    /\ [](\A i \in DOMAIN out :
            out[i].type = "Keyword.Declaration"
            => /\ out[i].value \in keywords_decl
               /\ ~InClass(text, End(out[i]), WordCh))
    /\ [](text = S_function /\ Finished
            => out = <<Token(0, "Name", S_function)>>)

\* "fn" was emitted as a keyword before a boundary that is not the end
C5_Witness ==
    /\ out # <<>>
    /\ out[1] = Token(0, "Keyword.Declaration", <<"f", "n">>)
    /\ Len(text) > 2

(***************************************************************************)
(* C6: in "root", when the lowercase-led identifier pattern matches at the *)
(* cursor a text that starts with a keyword, a builtin type or a boolean   *)
(* literal, is longer than it and is not itself such a word, the step      *)
(* yields one Name token holding the whole text.                           *)
(***************************************************************************)
ClassicalWords ==
    keywords_decl \cup keywords_type \cup keywords_reserved
        \cup builtin_types_classical \cup bool_literals

\* the text the identifier pattern [a-z][a-zA-Z0-9\-_]* matches at the cursor
IdentAtCursor == SubSeq(text, pos + 1, pos + RootIdent(text, pos))

C6_NoKeywordPrefix ==
    [][\A w \in ClassicalWords :
          /\ Top(statestack) = "root"
          /\ StartsWith(text, pos, w)
          /\ RootIdent(text, pos) > Len(w)
          /\ IdentAtCursor \notin ClassicalWords
          => out' = Append(out, Token(pos, "Name", IdentAtCursor))]_vars

(***************************************************************************)
(* C7: in "root", "@true" and "@false" as whole words each yield one       *)
(* Name.Constant.Quantum token.                                            *)
(***************************************************************************)
C7_QuantumBoolean ==
    [][\A w \in quantum_bool_literals :
          /\ Top(statestack) = "root"
          /\ StartsWith(text, pos, w)
          /\ ~InClass(text, pos + Len(w), WordCh)
          => out' = Append(out, Token(pos, "Name.Constant.Quantum", w))]_vars

(***************************************************************************)
(* C8: "true", "int", "@int", "x" and "@x" each yield a single token, of   *)
(* type Name.Constant, Name.Builtin, Name.Builtin.Quantum, Name and        *)
(* Name.Variable.Quantum; and in "root" a sigil followed by a letter is    *)
(* never a token of its own: the step yields one builtin-type-quantum or   *)
(* identifier-quantum token that holds the sigil and the word.             *)
(***************************************************************************)
Single(ty) == out = <<Token(0, ty, text)>>

C8_SigilDistinction ==
    /\ [](Finished =>
            /\ text = S_true => Single("Name.Constant")
            /\ text = S_int  => Single("Name.Builtin")
            /\ text = S_qint => Single("Name.Builtin.Quantum")
            /\ text = S_x    => Single("Name")
            /\ text = S_qx   => Single("Name.Variable.Quantum"))
    /\ [][/\ Top(statestack) = "root"
          /\ InClass(text, pos, {"@"})
          /\ InClass(text, pos + 1, Letter)
          => /\ pos' >= pos + 2
             /\ out'[Len(out')].index = pos
             /\ out'[Len(out')].type \in
                    {"Name.Builtin.Quantum", "Name.Variable.Quantum"}]_vars

\* "@x" was scanned to its end
C8_Witness == text = S_qx /\ Finished /\ Len(out) = 1

(***************************************************************************)
(* C9: the number of "comment" entries on the stack is the number of       *)
(* openers consumed minus the number of closers consumed.  For             *)
(* "/* a /* b */ c */" every token is Comment.Multiline, the stack is      *)
(* ["root", "comment"] after the first closer, "comment" is on top until   *)
(* the second closer is consumed, and then the stack is ["root"] with all  *)
(* 17 characters consumed.                                                 *)
(***************************************************************************)
CommentDepth(stack) ==
    Cardinality({i \in DOMAIN stack : stack[i] = "comment"})

Openers == Count(out, "Comment.Multiline", <<"/", "*">>)

Closers == Count(out, "Comment.Multiline", <<"*", "/">>)

C9_CommentNesting ==
    /\ CommentDepth(statestack) = Openers - Closers
    /\ Openers = Closers <=> CommentDepth(statestack) = 0
    /\ text = S_nested =>
          /\ \A i \in DOMAIN out : out[i].type = "Comment.Multiline"
          /\ pos = 12 => statestack = <<"root", "comment">>
          /\ (0 < pos /\ pos < Len(text)) => Top(statestack) = "comment"
          /\ Finished => /\ statestack = <<"root">>
                         /\ Len(Values(out)) = 17
                         /\ Closers = 2

\* "/* a /* b */ c */" just after its first closer
C9_Witness ==
    /\ text = S_nested
    /\ pos = 12
    /\ Openers = 2 /\ Closers = 1

(***************************************************************************)
(* C10: no Number.Integer token starts with "0" or "-0" followed by more   *)
(* digits, and "00" yields two tokens of one character each.               *)
(***************************************************************************)
Unsigned(v) == IF v # <<>> /\ v[1] = "-" THEN Tail(v) ELSE v

C10_NoLeadingZero ==
    /\ \A i \in DOMAIN out :
          out[i].type = "Number.Integer"
          => LET d == Unsigned(out[i].value)
             IN  /\ d # <<>>
                 /\ \A k \in DOMAIN d : d[k] \in Digit
                 /\ Len(d) > 1 => d[1] # "0"
    /\ (text = S_00 /\ Finished)
          => /\ Len(out) = 2
             /\ out[1].index = 0 /\ Len(out[1].value) = 1
             /\ out[2].index = 1 /\ Len(out[2].value) = 1

\* "00" was scanned to its end
C10_Witness == text = S_00 /\ Finished /\ Len(out) = 2

(***************************************************************************)
(* C11: in "root" the number rules are tried in the order quantum integer, *)
(* float, integer: text at the cursor that the float pattern matches is    *)
(* one Number.Float token, and "@" with a signed integer is one            *)
(* Number.Quantum token; "0" is one Number.Integer token, "3.14" one       *)
(* Number.Float token and "@-5" one Number.Quantum token.                  *)
(***************************************************************************)
C11_NumberOrder ==
    /\ [][Top(statestack) = "root" /\ RootNumberFloat(text, pos) # NoMatch
            => out' = Append(out, Token(pos, "Number.Float",
                   SubSeq(text, pos + 1, pos + RootNumberFloat(text, pos))))]_vars
    /\ [][Top(statestack) = "root" /\ RootNumberQuantum(text, pos) # NoMatch
            => out' = Append(out, Token(pos, "Number.Quantum",
                   SubSeq(text, pos + 1, pos + RootNumberQuantum(text, pos))))]_vars
    /\ [](Finished =>
            /\ text = S_0     => Single("Number.Integer")
            /\ text = S_float => Single("Number.Float")
            /\ text = S_qneg5 => Single("Number.Quantum"))

\* "3.14" was scanned to its end
C11_Witness == text = S_float /\ Finished /\ Len(out) = 1

(***************************************************************************)
(* C12: "#[Trait]" yields Punctuation, Name.Decorator, Punctuation; the    *)
(* stack is ["root", "trait-list"] after "#[" and ["root"] after "]".  A   *)
(* "]" at the cursor in "trait-list" is consumed as Punctuation, pops      *)
(* exactly one state and leaves ["root"].                                  *)
(***************************************************************************)
\* the token types of a token sequence
Types(toks) == [i \in DOMAIN toks |-> toks[i].type]

\* the stack without its top
Popped(stack) == SubSeq(stack, 1, Len(stack) - 1)

C12_TraitListRoundTrip ==
    /\ [](text = S_trait =>
            /\ pos = 2 => statestack = <<"root", "trait-list">>
            /\ (2 <= pos /\ pos < Len(text)) => Top(statestack) = "trait-list"
            /\ Finished =>
                  /\ Types(out) = <<"Punctuation", "Name.Decorator",
                                    "Punctuation">>
                  /\ statestack = <<"root">>)
    /\ [][Top(statestack) = "trait-list" /\ InClass(text, pos, {"]"})
            => /\ out' = Append(out, Token(pos, "Punctuation", <<"]">>))
               /\ statestack' = Popped(statestack)
               /\ statestack' = <<"root">>]_vars

\* "#[Trait]" was scanned to its end
C12_Witness == text = S_trait /\ Finished /\ Len(out) = 3

(***************************************************************************)
(* C13: "<a:1>" yields Punctuation, Name.Attribute, Operator,              *)
(* Number.Integer, Punctuation; the stack is ["root", "modifier"] after    *)
(* "<" and ["root"] after ">".  A ">" at the cursor in "modifier" is       *)
(* consumed as Punctuation, pops exactly one state and leaves ["root"].    *)
(***************************************************************************)
C13_ModifierRoundTrip ==
    /\ [](text = S_modifier =>
            /\ pos = 1 => statestack = <<"root", "modifier">>
            /\ (1 <= pos /\ pos < Len(text)) => Top(statestack) = "modifier"
            /\ Finished =>
                  /\ Types(out) = <<"Punctuation", "Name.Attribute",
                                    "Operator", "Number.Integer",
                                    "Punctuation">>
                  /\ statestack = <<"root">>)
    /\ [][Top(statestack) = "modifier" /\ InClass(text, pos, {">"})
            => /\ out' = Append(out, Token(pos, "Punctuation", <<">">>))
               /\ statestack' = Popped(statestack)
               /\ statestack' = <<"root">>]_vars

\* "<a:1>" was scanned to its end
C13_Witness == text = S_modifier /\ Finished /\ Len(out) = 5

(***************************************************************************)
(* C15: the stack is ["root"], ["root", "trait-list"], ["root",            *)
(* "modifier"], or "root" with one or more "comment" entries above it.     *)
(***************************************************************************)
C15_StackShape ==
    \/ statestack \in {<<"root">>, <<"root", "trait-list">>,
                       <<"root", "modifier">>}
    \/ /\ Len(statestack) >= 2
       /\ statestack[1] = "root"
       /\ \A i \in 2..Len(statestack) : statestack[i] = "comment"

\* "<a>#[T]/*/*" at its end: a modifier and a trait list were opened and
\* closed, and two comments are open
C15_Witness ==
    /\ text = S_shapes
    /\ Finished
    /\ statestack = <<"root", "comment", "comment">>

(***************************************************************************)
(* C16: in "root", when the text at the cursor starts with "//", the step  *)
(* yields one Comment.Single token that extends to the end of the line     *)
(* (its newline, or the end of the text on the last line) and leaves the   *)
(* stack unchanged.                                                        *)
(***************************************************************************)
\* the rest of the line at the cursor, with its newline when it has one
LineAtCursor ==
    LET n == RunNot(text, pos, {"\n"})
    IN  SubSeq(text, pos + 1, Min({Len(text), pos + n + 1}))

C16_LineComment ==
    [][Top(statestack) = "root" /\ StartsWith(text, pos, <<"/", "/">>)
          => /\ out' = Append(out, Token(pos, "Comment.Single", LineAtCursor))
             /\ statestack' = statestack]_vars

(***************************************************************************)
(* C17: while "comment" is on top of the stack a rule matches at every     *)
(* character, and every step yields a Comment.Multiline token, never an    *)
(* Error token; a scan with more openers than closers ends with "comment"  *)
(* on top of the stack.                                                    *)
(***************************************************************************)
C17_CommentTotal ==
    /\ [](Top(statestack) = "comment" /\ pos < Len(text) => MatchEnabled)
    /\ [][Top(statestack) = "comment"
            => /\ Len(out') = Len(out) + 1
               /\ out'[Len(out')].type = "Comment.Multiline"]_vars
    /\ [](Finished /\ Openers > Closers => Top(statestack) = "comment")

\* the unterminated comment with a newline, a sigil, a quote, a lone "*" and
\* a lone "/" was scanned to its end
C17_Witness ==
    /\ text = S_unterminated
    /\ Finished
    /\ statestack = <<"root", "comment">>
    /\ Len(out) = Len(text) - 1

(***************************************************************************)
(* C18: in "modifier" no step but the one that consumes ">" changes the    *)
(* stack, and in "trait-list" none but the one that consumes "]"; the      *)
(* tokens yielded there are of the types of that state's rules or Error.   *)
(* The stack holds "modifier" exactly while a "<" consumed in "root" has   *)
(* no ">" consumed after it, so that an unclosed "<" ends the scan in      *)
(* "modifier": "<fn" yields Punctuation, Name.Attribute.                   *)
(***************************************************************************)
ModifierTypes ==
    {"Whitespace", "Operator.Word", "Operator", "Name.Attribute",
     "Number.Integer", "Punctuation", "Error"}

TraitListTypes == {"Whitespace", "Name.Decorator", "Punctuation", "Error"}

C18_StaysUntilCloser ==
    /\ [][Top(statestack) = "modifier"
            => /\ ~InClass(text, pos, {">"}) => statestack' = statestack
               /\ out'[Len(out')].type \in ModifierTypes]_vars
    /\ [][Top(statestack) = "trait-list"
            => /\ ~InClass(text, pos, {"]"}) => statestack' = statestack
               /\ out'[Len(out')].type \in TraitListTypes]_vars
    /\ [](Top(statestack) = "modifier" <=>
            Count(out, "Punctuation", <<"<">>)
                = Count(out, "Punctuation", <<">">>) + 1)
    /\ [](text = S_open_mod_fn /\ Finished
            => /\ out = <<Token(0, "Punctuation", <<"<">>),
                          Token(1, "Name.Attribute", <<"f", "n">>)>>
               /\ statestack = <<"root", "modifier">>)
    /\ [](text = S_open_trait /\ Finished
            => statestack = <<"root", "trait-list">>)

\* an unclosed "<" followed by a newline, a fallback character and "fn" was
\* scanned to its end
C18_Witness ==
    /\ text = S_open_mod
    /\ Finished
    /\ statestack = <<"root", "modifier">>
    /\ \E i \in DOMAIN out : out[i].type = "Error"
    /\ out[Len(out)].type = "Name.Attribute"

(***************************************************************************)
(* C14: every call starts with cursor 0 and stack [root], whatever state   *)
(* the call before ended in, and a call that has run to its end has        *)
(* yielded the same tokens as every earlier call on the same text.         *)
(***************************************************************************)
C14_NoCrossCallState ==
    /\ out = <<>> => pos = 0 /\ statestack = <<"root">>
    /\ Finished => \A i \in DOMAIN returned :
                       returned[i].text = text => returned[i].out = out

\* the third call repeats the text of the first and has ended; the call
\* between them ended inside a nested state (an opener alone)
C14_Witness ==
    /\ Len(returned) = 2
    /\ Finished
    /\ out # <<>>
    /\ returned[1].text = text
    /\ returned[2].text \in {<<"/", "*">>, <<"<">>, <<"#", "[">>}

(***************************************************************************)
(* C19: a step at which no rule matches leaves the stack as it is, moves   *)
(* the cursor by one and yields one token; the stack changes only at a     *)
(* step whose first matching rule has a state transition.                  *)
(***************************************************************************)
C19_FallbackFrame ==
    /\ [][FallbackEnabled
            => /\ statestack' = statestack
               /\ text' = text
               /\ pos' = pos + 1
               /\ Len(out') = Len(out) + 1]_vars
    /\ [][statestack' # statestack
            => MatchEnabled /\ FirstMatch(Rules).new # "None"]_vars

\* a fallback step was taken with "modifier" or "trait-list" on top
C19_Witness ==
    /\ Top(statestack) \in {"modifier", "trait-list"}
    /\ out # <<>>
    /\ out[Len(out)].type = "Error"

(***************************************************************************)
(* C20 as claimed: every Name.Variable.Quantum token is "@", a lowercase   *)
(* letter and identifier characters; every Name.Class token starts with an *)
(* uppercase letter and every Name token with a lowercase letter; "@Foo"   *)
(* is not a Name.Variable.Quantum token.                                   *)
(***************************************************************************)
\* v is one character of First and then identifier characters, after the
\* characters of prefix
Shaped(v, prefix, First) ==
    /\ Len(v) > Len(prefix)
    /\ SubSeq(v, 1, Len(prefix)) = prefix
    /\ v[Len(prefix) + 1] \in First
    /\ \A k \in (Len(prefix) + 2)..Len(v) : v[k] \in IdentCh

CaseClasses(QuantumFirst) ==
    \A i \in DOMAIN out :
        /\ out[i].type = "Name.Variable.Quantum"
              => Shaped(out[i].value, <<"@">>, QuantumFirst)
        /\ out[i].type = "Name.Class" => Shaped(out[i].value, <<>>, Upper)
        /\ out[i].type = "Name" => Shaped(out[i].value, <<>>, Lower)

=============================================================================
